---- MODULE Spec2Model ----
(***************************************************************************)
(* Model of src/main.py: the productivity tracker.  Three threads share    *)
(* the LogStore (self.logs) and the pending key buffer (key_data):         *)
(*   - the key listener (KeyboardLogger.track_keys.on_press),              *)
(*   - the sample+aggregate loop (ProductivityTracker.run.track_activity), *)
(*   - the persist loop (ProductivityTracker.save_logs).                   *)
(* The code takes no lock, so every statement that touches shared state is *)
(* a step of its own and the steps of the threads interleave.              *)
(*                                                                         *)
(* Specifications:                                                         *)
(*   Spec         track_activity and save_logs running together, with keys *)
(*                already captured in the buffer when the first tick runs  *)
(*   SpecCapture  the key listener and track_activity running together     *)
(*   SpecAll      the three threads together                               *)
(*   SpecLive     Spec with both loops scheduled fairly                    *)
(*   SpecStart    the process from its start on a log file left by an      *)
(*                earlier run, then the key listener and track_activity    *)
(*   SpecIdle     an IdleTimeLogger alone, fed a sequence of readings      *)
(*   SpecKeys     count_valid_keystrokes alone, on bounded key sequences   *)
(*   SpecBrowser  a BrowserLogger alone, called on one history snapshot    *)
(***************************************************************************)
EXTENDS Integers, Sequences, FiniteSets, TLC

(* ------------------------------ bounds -------------------------------- *)
MaxPress == 2        \* key events delivered to the listener
MaxTicks == 2        \* iterations of track_activity
MaxSaves == 2        \* iterations of save_logs
MaxHist  == 1        \* entries the browser history can hold
MaxSeqLen == 5       \* longest key sequence given to count_valid_keystrokes alone
MaxCap   == 3        \* largest max_idle given to count_valid_keystrokes alone
MaxCalls == 5        \* calls of check_idle on an idle tracker alone
MaxSnap  == 2        \* entries of a history snapshot given to log_browser_activity alone
MaxLbaCalls == 3     \* calls of log_browser_activity alone on one snapshot

(* --------------------------- program constants ------------------------ *)
idle_threshold  == 300     \* IdleTimeLogger.__init__(idle_threshold=300)
DefaultMaxIdle  == 20      \* count_valid_keystrokes(keys, max_idle=20)

(* ------------------------------ inputs -------------------------------- *)
None      == "None"
Today     == "2026-01-01"            \* str(datetime.now().date())
Uuid      == "UUID-1"                \* get_system_uuid()
KeySyms   == {"a", "b"}              \* key.char / str(key)
Titles    == {"D"}                   \* GetWindowText results; "D" is also a domain
Urls      == {"https://D/x", "D", "D/x"}   \* URLs of history entries
RemoteIds == {7}                     \* emp_id values the remote side answers
IdleReadings == {0, 350, 400, 450}   \* get_idle_time() results (seconds)
Raises    == 0 - 1                   \* stands for get_idle_time() raising
HistDates == {Today, "2025-12-31"}   \* dates of history entries
\* the inputs of the threads running together
PressSyms    == {"a"}
TickReadings == {0, 350, 400}
TickDates    == {Today}
TickUrls     == {"https://D/x"}

EmptyMap == [x \in {} |-> 0]
SetDefault(m, k, v) == IF k \in DOMAIN m THEN m ELSE m @@ (k :> v)
Put(m, k, v) == [x \in (DOMAIN m) \cup {k} |-> IF x = k THEN v ELSE m[x]]

(* ---------------------------------------------------------------------- *)
(* count_valid_keystrokes (main.py 283-303).  Python indexes from 0 and   *)
(* the loop is range(1, len(keys)); sequences here index from 1, so the   *)
(* walk starts at 2.                                                      *)
(* ---------------------------------------------------------------------- *)
RECURSIVE cvk_walk(_, _, _, _, _, _)
cvk_walk(keys, max_idle, i, last_key, consecutive_count, valid_keys_count) ==
  IF i > Len(keys) THEN valid_keys_count
  ELSE LET current_key == keys[i]
           cc == IF current_key = last_key THEN consecutive_count + 1 ELSE 1
           v  == IF cc <= max_idle THEN valid_keys_count + 1 ELSE valid_keys_count
       IN  cvk_walk(keys, max_idle, i + 1, current_key, cc, v)

count_valid_keystrokes(keys, max_idle) == cvk_walk(keys, max_idle, 2, None, 1, 0)

(* ---------------------------------------------------------------------- *)
(* IdleTimeLogger.check_idle (main.py 130-145) as a function of the prior *)
(* state and the reading; Raises is get_idle_time raising.                *)
(* ---------------------------------------------------------------------- *)
\* a variant that adds the whole reading at every idle tick, not the delta
check_idle_total_whole(total, logged, r) ==
  IF r = Raises THEN total
  ELSE IF r >= idle_threshold THEN total + r ELSE total

check_idle_total(total, logged, r) ==
  IF r = Raises THEN total
  ELSE IF r >= idle_threshold THEN total + (r - logged) ELSE total

\* a variant that keeps the last logged reading when the reading is below
\* the threshold
check_idle_logged_keeps(total, logged, r) ==
  IF r = Raises THEN logged
  ELSE IF r >= idle_threshold THEN r ELSE logged

check_idle_logged(total, logged, r) ==
  IF r = Raises THEN logged
  ELSE IF r >= idle_threshold THEN r ELSE 0

(* ApplicationLogger.get_active_window (main.py 94-99) *)
get_active_window(q) == IF q = "fail" THEN "Unknown" ELSE q
WindowQueries == Titles \cup {"fail"}

(* the LogStore literals of load_logs / reset_logs (main.py 228, 246) *)
EmptyStore(id) == [emp_id |-> id, day_logs |-> EmptyMap, summary |-> EmptyMap]

(* the day record literal of aggregate_logs (main.py 311-315) *)
EmptyDay == [browser_activity |-> EmptyMap, application_activity |-> EmptyMap,
             idle_time |-> 0]

VARIABLES
  logs,                 \* self.logs, the LogStore
  file,                 \* productivity_logs.json: [kind, content]
  key_data, key_order,  \* KeyboardLogger.key_data and its insertion order
  app_time,             \* ApplicationLogger.app_time
  browser_time,         \* BrowserLogger.browser_time[today]
  browser_history,      \* BrowserLogger.browser_history: date -> domain -> counts
  history,              \* what get_history() returns: sequence of [date, url]
  lba_out,              \* history: what the calls of log_browser_activity alone left
  total_idle_time, current_logged_time,   \* IdleTimeLogger fields
  pcT, it, it_size, ctx, n_len, temp_keys, \* track_activity / aggregate_logs position and locals
  pcL, l_win, l_key, l_ref,                \* on_press position and locals
  pcS, resp, s_size, outcome,     \* save_logs position and locals
  sent,                 \* payloads handed to send_metrics in the current tick
  ticksT, ticksS, nPress,                  \* loop iteration counters
  captured,             \* history: keys captured per context, in order
  dropped,              \* history: per context, how many keys the drain discarded
  wrote,                \* history: the current save_logs tick has written the file
  k_keys, k_cap, k_out, \* count_valid_keystrokes alone: its inputs and result
  pcM, loaded,          \* __init__: its position, and self._loaded
  before,               \* history: emp_id of the store verify found, and whether it had records
  at_reset,             \* history: what the samplers held when this tick's check reset the
                        \* store, if it did while track_activity was between two ticks
  idle_in, idle_out     \* history: readings fed to check_idle alone and the totals returned

vars == <<logs, file, key_data, key_order, app_time, browser_time, browser_history, history,
          total_idle_time, current_logged_time,
          pcT, it, it_size, ctx, n_len, temp_keys,
          pcL, l_win, l_key, l_ref, pcS, resp, s_size, outcome, sent,
          ticksT, ticksS, nPress, captured, dropped, wrote, before, at_reset,
          k_keys, k_cap, k_out, idle_in, idle_out, pcM, loaded, lba_out>>

envV     == <<history>>
trackV   == <<app_time, browser_time, browser_history, total_idle_time, current_logged_time,
              pcT, it, it_size, ctx, n_len, temp_keys, ticksT>>
listenV  == <<pcL, l_win, l_key, l_ref, nPress, captured, dropped>>
saveV    == <<pcS, resp, s_size, outcome, sent, ticksS, before, at_reset, wrote>>
aloneV   == <<idle_in, idle_out, k_keys, k_cap, k_out, pcM, loaded, lba_out>>

(* ------------------------------- Init --------------------------------- *)
NoReset == [on |-> FALSE, tick |-> 0, idle |-> 0,
            apps |-> EmptyMap, captured |-> EmptyMap]

NoResp == [kind |-> "none", status |-> 0, emp_id |-> 0 - 1]

NotRun == 0 - 1

(* the fields the constructors set whatever the log file holds (31-32, 91, *)
(* 110-111, 150, 176-185) and the threads before their first step         *)
InitFields ==
  /\ app_time = EmptyMap /\ browser_time = EmptyMap /\ browser_history = EmptyMap
  /\ total_idle_time = 0 /\ current_logged_time = 0
  /\ pcT = "browser" /\ it = 0 /\ it_size = 0 /\ ctx = "" /\ n_len = 0 /\ temp_keys = <<>>
  /\ pcL = "idle" /\ l_win = "" /\ l_key = "" /\ l_ref = "none"
  /\ pcS = "verify" /\ resp = NoResp /\ s_size = 0
  /\ outcome = "none" /\ sent = <<>> /\ wrote = FALSE
  /\ ticksT = 0 /\ ticksS = 0 /\ nPress = 0
  /\ dropped = EmptyMap
  /\ before = [emp_id |-> 0 - 1, populated |-> FALSE]
  /\ at_reset = NoReset
  /\ idle_in = <<>> /\ idle_out = <<>>

(* The state after ProductivityTracker.__init__ (main.py 174-189) when    *)
(* the log file exists and has 10 or fewer lines (load_logs, 227-228).    *)
InitButHistory ==
  /\ lba_out = <<>>
  /\ logs = EmptyStore(0 - 1)
  /\ file = [kind |-> "pretty", content |-> EmptyStore(0 - 1)]
  /\ pcM = "run" /\ loaded = FALSE
  /\ InitFields

InitButBuffer == InitButHistory /\ history = <<>>

NoCountRun == k_keys = <<>> /\ k_cap = DefaultMaxIdle /\ k_out = NotRun
NoBuffer   == key_data = EmptyMap /\ key_order = <<>> /\ captured = EmptyMap

Init == InitButBuffer /\ NoBuffer /\ NoCountRun

(* States the listener leaves when it has captured keys before the first  *)
(* tick of the two loops: Init followed by on_press calls only (each is   *)
(* reachable under SpecCapture, see BufferIs).                           *)
InitBuffers ==
  { <<>>,
    << <<"D", <<"a", "a">> >> >>,
    << <<"Unknown", <<"a">> >>, <<"D", <<"a">> >> >> }

InitPending ==
  /\ InitButBuffer /\ NoCountRun
  /\ \E b \in InitBuffers :
       /\ key_order = [i \in DOMAIN b |-> b[i][1]]
       /\ key_data = [c \in {b[i][1] : i \in DOMAIN b} |->
                        b[CHOOSE i \in DOMAIN b : b[i][1] = c][2]]
       /\ captured = key_data

(* ---------------------- the environment: browsing --------------------- *)
(* The user visits a page: the history get_history() returns grows.       *)
Visit(date, url) ==
  /\ Len(history) < MaxHist
  /\ history' = Append(history, [date |-> date, url |-> url])
  /\ UNCHANGED <<logs, file, key_data, key_order, trackV, listenV, saveV, aloneV>>

(* ------------------ track_activity (main.py 362-368) ------------------ *)
(* BrowserLogger.fetch_browser_history (34-44): [] when the fetch raises  *)
fetch_browser_history(h, ok) == IF ok THEN h ELSE <<>>

(* url.split('/') on the URLs of the model *)
url_split(u) ==
  IF u = "https://D/x" THEN <<"https:", "", "D", "x">>
  ELSE IF u = "D/x" THEN <<"D", "x">>
  ELSE <<u>>

(* '//' in url: two slashes in a row, i.e. an empty piece that is neither *)
(* the first nor the last                                                 *)
has_double_slash(u) ==
  \E i \in 2..(Len(url_split(u)) - 1) : url_split(u)[i] = ""

(* 66: url.split('/')[2] if '//' in url else url *)
url_domain(u) == IF has_double_slash(u) THEN url_split(u)[3] ELSE u

(* 69-73 and 77-80: the entry of a domain is made if missing, then both   *)
(* numbers go up by one                                                   *)
count_entry(m, domain) ==
  LET seeded == SetDefault(m, domain, [time_spent |-> 0, visits |-> 0])
  IN  [seeded EXCEPT ![domain] =
         [time_spent |-> @.time_spent + 1, visits |-> @.visits + 1]]

(* the loop body of log_browser_activity for browser_time (58-80) *)
RECURSIVE lba_walk(_, _, _)
lba_walk(bt, h, i) ==
  IF i > Len(h) THEN bt
  ELSE LET e == h[i]
       IN  lba_walk(IF e.date = Today THEN count_entry(bt, url_domain(e.url)) ELSE bt,
                    h, i + 1)

(* the loop body of log_browser_activity for browser_history (58-73) *)
RECURSIVE lbh_walk(_, _, _)
lbh_walk(bh, h, i) ==
  IF i > Len(h) THEN bh
  ELSE LET e == h[i]
           dated == SetDefault(bh, e.date, EmptyMap)
       IN  lbh_walk([dated EXCEPT ![e.date] = count_entry(@, url_domain(e.url))],
                    h, i + 1)

log_browser_history(bh, h) == lbh_walk(bh, h, 1)

log_browser_activity(bt, h) == lba_walk(bt, h, 1)

LogBrowserActivity ==
  /\ pcT = "browser" /\ ticksT < MaxTicks
  /\ \E ok \in BOOLEAN :
       /\ browser_time' =
            log_browser_activity(browser_time, fetch_browser_history(history, ok))
       /\ browser_history' =
            log_browser_history(browser_history, fetch_browser_history(history, ok))
  /\ pcT' = "app"
  /\ UNCHANGED <<logs, file, key_data, key_order, envV, listenV, saveV, aloneV,
                 app_time, total_idle_time, current_logged_time,
                 it, it_size, ctx, n_len, temp_keys, ticksT>>

(* ApplicationLogger.log_active_app (101-104) *)
log_active_app(at, w) == Put(at, w, (IF w \in DOMAIN at THEN at[w] ELSE 0) + 1)

LogActiveApp ==
  /\ pcT = "app"
  /\ \E q \in WindowQueries : app_time' = log_active_app(app_time, get_active_window(q))
  /\ pcT' = "idle"
  /\ UNCHANGED <<logs, file, key_data, key_order, envV, listenV, saveV, aloneV,
                 browser_time, browser_history, total_idle_time, current_logged_time,
                 it, it_size, ctx, n_len, temp_keys, ticksT>>

(* IdleTimeLogger.check_idle (130-145), called at main.py 366 *)
CheckIdle ==
  /\ pcT = "idle"
  /\ \E r \in TickReadings :
       /\ total_idle_time' = check_idle_total(total_idle_time, current_logged_time, r)
       /\ current_logged_time' = check_idle_logged(total_idle_time, current_logged_time, r)
  /\ pcT' = "agg_day"
  /\ UNCHANGED <<logs, file, key_data, key_order, envV, listenV, saveV, aloneV,
                 app_time, browser_time, browser_history, it, it_size, ctx, n_len, temp_keys, ticksT>>

(* ------------------ aggregate_logs (main.py 309-346) ------------------ *)
HasToday(l) == Today \in DOMAIN l.day_logs
Day(l)      == l.day_logs[Today]

(* pcT = "dead": an uncaught exception has ended track_activity, which has *)
(* no handler (362-368)                                                   *)

(* 311-315: setdefault(today, {...}) *)
AggDay ==
  /\ pcT = "agg_day"
  /\ logs' = [logs EXCEPT !.day_logs = SetDefault(@, Today, EmptyDay)]
  /\ pcT' = "agg_browser"
  /\ UNCHANGED <<file, key_data, key_order, envV, listenV, saveV, aloneV,
                 app_time, browser_time, browser_history, total_idle_time, current_logged_time,
                 it, it_size, ctx, n_len, temp_keys, ticksT>>

\* a variant that refreshes the counts of the domains already there
seed_browser_refresh(ba, bt) ==
  [d \in (DOMAIN ba) \cup (DOMAIN bt) |->
     IF d \in DOMAIN bt
       THEN [time_spent |-> bt[d].time_spent, visits |-> bt[d].visits,
             keys |-> IF d \in DOMAIN ba THEN ba[d].keys ELSE <<>>,
             total_key_strokes |-> IF d \in DOMAIN ba THEN ba[d].total_key_strokes ELSE 0]
       ELSE ba[d]]

(* 318-324: seed the domains of today's browser sample that are not yet there *)
seed_browser(ba, bt) ==
  [d \in (DOMAIN ba) \cup (DOMAIN bt) |->
     IF d \in DOMAIN ba THEN ba[d]
     ELSE [time_spent |-> bt[d].time_spent, visits |-> bt[d].visits,
           keys |-> <<>>, total_key_strokes |-> 0]]

AggBrowser ==
  /\ pcT = "agg_browser"
  /\ IF browser_time = EmptyMap
       THEN /\ pcT' = "agg_apps"
            /\ UNCHANGED logs
       ELSE IF ~HasToday(logs)
         THEN /\ pcT' = "dead"          \* KeyError: the store was reset
              /\ UNCHANGED logs
         ELSE /\ logs' = [logs EXCEPT !.day_logs[Today].browser_activity =
                                          seed_browser(@, browser_time)]
              /\ pcT' = "agg_apps"
  /\ UNCHANGED <<file, key_data, key_order, envV, listenV, saveV, aloneV,
                 app_time, browser_time, browser_history, total_idle_time, current_logged_time,
                 it, it_size, ctx, n_len, temp_keys, ticksT>>

(* 327-332: seed the applications of app_time that are not yet there *)
seed_apps(aa, at) ==
  [a \in (DOMAIN aa) \cup (DOMAIN at) |->
     IF a \in DOMAIN aa THEN aa[a]
     ELSE [time_spent |-> at[a], keys |-> <<>>, total_key_strokes |-> 0]]

(* 327-335: the application loop, then iter(key_data.items()) *)
AggApps ==
  /\ pcT = "agg_apps"
  /\ IF app_time = EmptyMap
       THEN /\ pcT' = "drain_next"
            /\ UNCHANGED logs
       ELSE IF ~HasToday(logs)
         THEN /\ pcT' = "dead"          \* KeyError: the store was reset
              /\ UNCHANGED logs
         ELSE /\ logs' = [logs EXCEPT !.day_logs[Today].application_activity =
                                          seed_apps(@, app_time)]
              /\ pcT' = "drain_next"
  /\ it' = 1
  /\ it_size' = Cardinality(DOMAIN key_data)
  /\ UNCHANGED <<file, key_data, key_order, envV, listenV, saveV, aloneV,
                 app_time, browser_time, browser_history, total_idle_time, current_logged_time,
                 ctx, n_len, temp_keys, ticksT>>

(* 335-337: next() of the dict iterator, which raises RuntimeError when   *)
(* (the locals of a finished loop are set back to their initial values)   *)
(* the dict changed size since the iterator was made; temp_keys is the    *)
(* list object of the buffer, and len(temp_keys) is read                  *)
DrainNext ==
  /\ pcT = "drain_next"
  /\ temp_keys' = <<>>
  /\ IF Cardinality(DOMAIN key_data) # it_size
       THEN /\ pcT' = "dead"
            /\ UNCHANGED <<it, ctx, n_len>>
       ELSE IF it > Len(key_order)
         THEN /\ pcT' = "agg_idle"
              /\ it' = 0 /\ ctx' = "" /\ n_len' = 0
         ELSE /\ ctx' = key_order[it]
              /\ it' = it + 1
              /\ n_len' = Len(key_data[key_order[it]])
              /\ pcT' = "drain_store"
  /\ UNCHANGED <<logs, file, key_data, key_order, envV, listenV, saveV, aloneV,
                 app_time, browser_time, browser_history, total_idle_time, current_logged_time,
                 it_size, ticksT>>

(* 337: the slice [len(temp_keys):] is taken and stored as the context's  *)
(* new list; the old list object stays reachable as temp_keys, and as the *)
(* listener's reference if on_press has already fetched it                *)
DrainStore ==
  /\ pcT = "drain_store"
  /\ temp_keys' = key_data[ctx]
  /\ key_data' = [key_data EXCEPT ![ctx] = SubSeq(@, n_len + 1, Len(@))]
  /\ l_ref' = IF pcL = "append" /\ l_win = ctx /\ l_ref = "live" THEN "old" ELSE l_ref
  /\ pcT' = "drain_extend"
  /\ UNCHANGED <<logs, file, key_order, envV, saveV, aloneV,
                 pcL, l_win, l_key, nPress, captured, dropped,
                 app_time, browser_time, browser_history, total_idle_time, current_logged_time,
                 it, it_size, ctx, n_len, ticksT>>

\* a variant that looks for the context among the applications first
drain_bucket_app_first(day, c) ==
  IF c \in DOMAIN day.application_activity THEN "application"
  ELSE IF c \in DOMAIN day.browser_activity THEN "browser"
  ELSE "none"

(* 338 and 342: the if / elif that picks the bucket of a context *)
drain_bucket(day, c) ==
  IF c \in DOMAIN day.browser_activity THEN "browser"
  ELSE IF c \in DOMAIN day.application_activity THEN "application"
  ELSE "none"

(* 338-339 and 342-343: the bucket is chosen and keys.extend(temp_keys)   *)
DrainExtend ==
  /\ pcT = "drain_extend"
  /\ IF ~HasToday(logs)
       THEN /\ pcT' = "dead"            \* KeyError: the store was reset
            /\ UNCHANGED logs
       ELSE IF drain_bucket(Day(logs), ctx) = "browser"
         THEN /\ logs' = [logs EXCEPT !.day_logs[Today].browser_activity[ctx].keys =
                                          @ \o temp_keys]
              /\ pcT' = "drain_count_b"
         ELSE IF drain_bucket(Day(logs), ctx) = "application"
           THEN /\ logs' = [logs EXCEPT !.day_logs[Today].application_activity[ctx].keys =
                                            @ \o temp_keys]
                /\ pcT' = "drain_count_a"
           ELSE /\ pcT' = "drain_next"
                /\ UNCHANGED logs
  /\ dropped' = IF HasToday(logs) /\ drain_bucket(Day(logs), ctx) = "none"
                  THEN Put(dropped, ctx, (IF ctx \in DOMAIN dropped THEN dropped[ctx] ELSE 0)
                                          + Len(temp_keys))
                  ELSE dropped
  \* the old list object is garbage from here on, unless on_press holds it
  /\ l_ref' = IF l_ref = "old" THEN "gone" ELSE l_ref
  /\ UNCHANGED <<file, key_data, key_order, envV, saveV, aloneV,
                 pcL, l_win, l_key, nPress, captured,
                 app_time, browser_time, browser_history, total_idle_time, current_logged_time,
                 it, it_size, ctx, n_len, temp_keys, ticksT>>

(* 341 and 344: total_key_strokes = count_valid_keystrokes(keys)          *)
DrainCount ==
  /\ pcT \in {"drain_count_b", "drain_count_a"}
  /\ IF ~HasToday(logs)
       THEN /\ pcT' = "dead"            \* KeyError: the store was reset
            /\ UNCHANGED logs
       ELSE /\ pcT' = "drain_next"
            /\ IF pcT = "drain_count_b"
                 THEN logs' = [logs EXCEPT
                        !.day_logs[Today].browser_activity[ctx].total_key_strokes =
                           count_valid_keystrokes(
                             Day(logs).browser_activity[ctx].keys, DefaultMaxIdle)]
                 ELSE logs' = [logs EXCEPT
                        !.day_logs[Today].application_activity[ctx].total_key_strokes =
                           count_valid_keystrokes(
                             Day(logs).application_activity[ctx].keys, DefaultMaxIdle)]
  /\ UNCHANGED <<file, key_data, key_order, envV, listenV, saveV, aloneV,
                 app_time, browser_time, browser_history, total_idle_time, current_logged_time,
                 it, it_size, ctx, n_len, temp_keys, ticksT>>

(* 346: idle_time = total_idle_time; then time.sleep (368) and loop *)
AggIdle ==
  /\ pcT = "agg_idle"
  /\ IF ~HasToday(logs)
       THEN /\ pcT' = "dead"            \* KeyError: the store was reset
            /\ UNCHANGED <<logs, ticksT>>
       ELSE /\ logs' = [logs EXCEPT !.day_logs[Today].idle_time = total_idle_time]
            /\ pcT' = "browser"
            /\ ticksT' = ticksT + 1
  /\ UNCHANGED <<file, key_data, key_order, envV, listenV, saveV, aloneV,
                 app_time, browser_time, browser_history, total_idle_time, current_logged_time,
                 it, it_size, ctx, n_len, temp_keys>>

(* ------------- KeyboardLogger.on_press (main.py 154-165) -------------- *)
(* 157-163, up to the evaluation of self.key_data[active_window]: the     *)
(* context is resolved, gets an empty list if it has none, and the list   *)
(* object is fetched                                                      *)
Press(q, k) ==
  /\ pcL = "idle" /\ nPress < MaxPress
  /\ LET w == get_active_window(q) IN
       /\ key_data' = SetDefault(key_data, w, <<>>)
       /\ key_order' = IF w \in DOMAIN key_data THEN key_order ELSE Append(key_order, w)
       /\ l_win' = w
  /\ l_key' = k
  /\ l_ref' = "live"
  /\ pcL' = "append"
  /\ nPress' = nPress + 1
  /\ UNCHANGED <<logs, file, envV, trackV, saveV, aloneV, captured, dropped>>

(* 163: .append(key_char) on the list object fetched before *)
AppendKey ==
  /\ pcL = "append"
  /\ key_data' = IF l_ref = "live"
                   THEN [key_data EXCEPT ![l_win] = Append(@, l_key)]
                   ELSE key_data
  /\ temp_keys' = IF l_ref = "old" THEN Append(temp_keys, l_key) ELSE temp_keys
  /\ captured' = Put(captured, l_win,
                     Append(IF l_win \in DOMAIN captured THEN captured[l_win] ELSE <<>>, l_key))
  /\ pcL' = "idle"
  /\ l_ref' = "none" /\ l_win' = "" /\ l_key' = ""
  /\ UNCHANGED <<logs, file, key_order, envV, saveV, aloneV, nPress, dropped,
                 app_time, browser_time, browser_history, total_idle_time, current_logged_time,
                 pcT, it, it_size, ctx, n_len, ticksT>>

(* -------------- save_logs (main.py 254-281) and its callees ----------- *)
Responses ==
  {[kind |-> "raise", status |-> 0, emp_id |-> 0 - 1],
   [kind |-> "answer", status |-> 404, emp_id |-> 0 - 1]}
  \cup {[kind |-> "answer", status |-> 200, emp_id |-> e] : e \in RemoteIds}

(* reset_logs (244-247): the store is replaced; the file, opened "r+", is *)
(* overwritten from its start without being truncated                     *)
reset_logs_store(id) == EmptyStore(id)
reset_logs_file(id)  == [kind |-> "clobbered", content |-> EmptyStore(id)]

\* a variant that, on a changed emp_id, updates the id and keeps the records
verify_store_keeps(l, r) ==
  IF r.status # 200 THEN reset_logs_store(0 - 1)
  ELSE IF r.emp_id # l.emp_id THEN [l EXCEPT !.emp_id = r.emp_id]
  ELSE l

(* verify_change_in_user_on_this_system_uuid (233-242): the store it leaves *)
verify_store(l, r) ==
  IF r.status # 200 THEN reset_logs_store(0 - 1)
  ELSE IF r.emp_id # l.emp_id THEN reset_logs_store(r.emp_id)
  ELSE l

verify_file(f, l, r) ==
  IF r.status # 200 THEN reset_logs_file(0 - 1)
  ELSE IF r.emp_id # l.emp_id THEN reset_logs_file(r.emp_id)
  ELSE f

(* 236-242: whether the check calls reset_logs *)
resets(l, r) == r.kind = "answer" /\ (r.status # 200 \/ r.emp_id # l.emp_id)

(* 257: the identity check; requests.get raising is caught at 278 and the *)
(* tick ends at the sleep (281)                                           *)
Verify ==
  /\ pcS = "verify" /\ ticksS < MaxSaves
  /\ \E r \in Responses :
       /\ resp' = r
       /\ IF r.kind = "raise"
            THEN /\ UNCHANGED <<logs, file>>
                 /\ pcS' = "sleep"
            ELSE /\ logs' = verify_store(logs, r)
                 /\ file' = verify_file(file, logs, r)
                 /\ pcS' = "dump"
  /\ UNCHANGED ticksS
  /\ before' = [emp_id |-> logs.emp_id, populated |-> logs.day_logs # EmptyMap]
  /\ at_reset' = IF resets(logs, resp') /\ pcT = "browser"
                   THEN [on |-> TRUE, tick |-> ticksT,
                         idle |-> total_idle_time, apps |-> app_time,
                         captured |-> captured]
                   ELSE NoReset
  /\ UNCHANGED <<key_data, key_order, envV, trackV, listenV, aloneV, s_size, sent, outcome, wrote>>

(* 258-259: open(..., "w") truncates, json.dump(self.logs, f, indent=4)   *)
Dump ==
  /\ pcS = "dump"
  /\ file' = [kind |-> "pretty", content |-> logs]
  /\ wrote' = TRUE
  /\ pcS' = "payload_start"
  /\ UNCHANGED <<logs, key_data, key_order, envV, trackV, listenV, aloneV,
                 resp, s_size, outcome, sent, ticksS, before, at_reset>>

(* 260-263: app_activities is fetched; the loop over it starts if it is   *)
(* neither None nor empty                                                 *)
PayloadStart ==
  /\ pcS = "payload_start"
  /\ IF HasToday(logs) /\ Day(logs).application_activity # EmptyMap
       THEN /\ s_size' = Cardinality(DOMAIN Day(logs).application_activity)
            /\ pcS' = "payload_build"
       ELSE /\ pcS' = "sleep"
            /\ UNCHANGED s_size
  /\ UNCHANGED <<ticksS, logs, file, key_data, key_order, envV, trackV, listenV, aloneV,
                 resp, outcome, sent, before, at_reset, wrote>>

\* a variant that copies each application's whole entry into the payload
metrics_payload_raw(l) ==
  [uuid |-> Uuid,
   date |-> Today,
   app_details |-> Day(l).application_activity,
   idle_time |-> Day(l).idle_time]

(* 264-276: the filtered payload *)
metrics_payload(l) ==
  [uuid |-> Uuid,
   date |-> Today,
   app_details |-> [a \in DOMAIN Day(l).application_activity |->
                      [total_key_strokes |->
                         Day(l).application_activity[a].total_key_strokes]],
   idle_time |-> Day(l).idle_time]

(* 263-277 and send_metrics (249-252): the loop raises RuntimeError when  *)
(* aggregate_logs added an application meanwhile; otherwise the payload   *)
(* is posted: the answer is printed whatever its status, an exception is  *)
(* caught at 278.  Then the sleep (281).                                  *)
SendOutcomes == {"ok", "non2xx", "raise"}

\* a variant in which an exception of send_metrics leaves save_logs
SendMetrics_uncaught(o) ==
  /\ pcS = "payload_build"
  /\ IF Cardinality(DOMAIN Day(logs).application_activity) # s_size
       THEN UNCHANGED <<sent, outcome>>
       ELSE /\ sent' = Append(sent, metrics_payload(logs))
            /\ outcome' = o
  /\ pcS' = IF o = "raise" /\ Cardinality(DOMAIN Day(logs).application_activity) = s_size
            THEN "dead" ELSE "sleep"
  /\ UNCHANGED <<logs, file, key_data, key_order, envV, trackV, listenV, aloneV,
                 resp, s_size, before, at_reset, ticksS, wrote>>

SendMetrics(o) ==
  /\ pcS = "payload_build"
  /\ IF Cardinality(DOMAIN Day(logs).application_activity) # s_size
       THEN UNCHANGED <<sent, outcome>>
       ELSE /\ sent' = Append(sent, metrics_payload(logs))
            /\ outcome' = o
  /\ pcS' = "sleep"
  /\ UNCHANGED <<logs, file, key_data, key_order, envV, trackV, listenV, aloneV,
                 resp, s_size, before, at_reset, ticksS, wrote>>

(* 281: time.sleep(self.log_interval); the tick is over and its locals    *)
(* are gone                                                               *)
SaveSleep ==
  /\ pcS = "sleep"
  /\ pcS' = "verify"
  /\ ticksS' = ticksS + 1
  /\ resp' = NoResp /\ s_size' = 0 /\ outcome' = "none" /\ sent' = <<>>
  /\ before' = [emp_id |-> 0 - 1, populated |-> FALSE]
  /\ at_reset' = NoReset
  /\ wrote' = FALSE
  /\ UNCHANGED <<logs, file, key_data, key_order, envV, trackV, listenV, aloneV>>

(* ---------------- an IdleTimeLogger alone (107-145) ------------------- *)
IdleCall(r) ==
  /\ Len(idle_in) < MaxCalls
  /\ total_idle_time' = check_idle_total(total_idle_time, current_logged_time, r)
  /\ current_logged_time' = check_idle_logged(total_idle_time, current_logged_time, r)
  /\ idle_in' = Append(idle_in, r)
  /\ idle_out' = Append(idle_out, total_idle_time')
  /\ UNCHANGED <<logs, file, key_data, key_order, envV, listenV, saveV,
                 app_time, browser_time, browser_history, pcT, it, it_size, ctx, n_len, temp_keys, ticksT,
                 k_keys, k_cap, k_out, pcM, loaded, lba_out>>

NextIdle == \E r \in IdleReadings \cup {Raises} : IdleCall(r)

SpecIdle == Init /\ [][NextIdle]_vars

RECURSIVE SeqsUpTo(_, _)
SeqsUpTo(S, n) ==
  IF n = 0 THEN {<<>>}
  ELSE LET shorter == SeqsUpTo(S, n - 1)
       IN  shorter \cup {Append(q, x) : q \in shorter, x \in S}

(* ---------------- a BrowserLogger alone (28-85) ----------------------- *)
(* A fresh BrowserLogger and a history snapshot that does not change;     *)
(* each call of log_browser_activity fetches that snapshot.               *)
HistEntries == {[date |-> d, url |-> u] : d \in HistDates, u \in Urls}

InitBrowser ==
  /\ InitButHistory /\ NoBuffer /\ NoCountRun
  /\ history \in SeqsUpTo(HistEntries, MaxSnap)

LbaCall ==
  /\ Len(lba_out) < MaxLbaCalls
  /\ browser_time' = log_browser_activity(browser_time, fetch_browser_history(history, TRUE))
  /\ browser_history' =
       log_browser_history(browser_history, fetch_browser_history(history, TRUE))
  /\ lba_out' = Append(lba_out, [time |-> browser_time', hist |-> browser_history'])
  /\ UNCHANGED <<logs, file, key_data, key_order, envV, listenV, saveV,
                 app_time, total_idle_time, current_logged_time,
                 pcT, it, it_size, ctx, n_len, temp_keys, ticksT,
                 idle_in, idle_out, k_keys, k_cap, k_out, pcM, loaded>>

SpecBrowser == InitBrowser /\ [][LbaCall]_vars

(* ----------------- count_valid_keystrokes alone (283-303) ------------- *)
InitKeys ==
  /\ InitButBuffer /\ NoBuffer
  /\ k_keys \in SeqsUpTo(KeySyms, MaxSeqLen)
  /\ k_cap \in 1..MaxCap
  /\ k_out = NotRun

CountKeys ==
  /\ k_out = NotRun
  /\ k_out' = count_valid_keystrokes(k_keys, k_cap)
  /\ UNCHANGED <<logs, file, key_data, key_order, envV, trackV, listenV, saveV,
                 idle_in, idle_out, k_keys, k_cap, pcM, loaded, lba_out>>

SpecKeys == InitKeys /\ [][CountKeys]_vars

(* ------------------------------- Next --------------------------------- *)
TrackStep ==
  \/ LogBrowserActivity
  \/ LogActiveApp
  \/ CheckIdle
  \/ AggDay
  \/ AggBrowser
  \/ AggApps
  \/ DrainNext
  \/ DrainStore
  \/ DrainExtend
  \/ DrainCount
  \/ AggIdle

SaveStep ==
  \/ Verify
  \/ Dump
  \/ PayloadStart
  \/ \E o \in SendOutcomes : SendMetrics(o)
  \/ SaveSleep

ListenStep ==
  \/ \E q \in WindowQueries, k \in PressSyms : Press(q, k)
  \/ AppendKey

Browse == \E dt \in TickDates, u \in TickUrls : Visit(dt, u)

Next == Browse \/ TrackStep \/ SaveStep

Spec == InitPending /\ [][Next]_vars

NextCapture == Browse \/ ListenStep \/ TrackStep

SpecCapture == Init /\ [][NextCapture]_vars

NextAll == Browse \/ TrackStep \/ SaveStep \/ ListenStep

SpecAll == Init /\ [][NextAll]_vars

(* ------------- process start: __init__ (main.py 174-189) -------------- *)
(* json.dump(self.logs, f, indent=4) (259) writes one line per scalar and *)
(* per list item, two for the braces of a non-empty dict or list, and one *)
(* for an empty one; f.readlines() (223) counts them.                     *)
RECURSIVE MapSum(_)
MapSum(m) ==
  IF DOMAIN m = {} THEN 0
  ELSE LET k == CHOOSE x \in DOMAIN m : TRUE
       IN  m[k] + MapSum([x \in (DOMAIN m) \ {k} |-> m[x]])

list_lines(ks) == IF ks = <<>> THEN 1 ELSE Len(ks) + 2
dict_lines(m)  == IF DOMAIN m = {} THEN 1 ELSE MapSum(m) + 2

day_lines(d) ==
  2 + dict_lines([u \in DOMAIN d.browser_activity |->
                    5 + list_lines(d.browser_activity[u].keys)])
    + dict_lines([a \in DOMAIN d.application_activity |->
                    4 + list_lines(d.application_activity[a].keys)])
    + 1

dump_lines(l) ==
  3 + dict_lines([d \in DOMAIN l.day_logs |-> day_lines(l.day_logs[d])]) + 1

(* self.logs before load_logs has assigned it *)
Unset == [unset |-> TRUE]

(* load_logs (220-231).  open(..., "r") raises FileNotFoundError on an     *)
(* absent file, which the except clause (json.JSONDecodeError only) does   *)
(* not catch; a JSONDecodeError is re-raised (231).  Either way the        *)
(* exception leaves __init__ and the process ends.  A file reset_logs left *)
(* without a following json.dump holds the one-line dump over the start of *)
(* the older text: it is not JSON, and has lost the first lines of the     *)
(* older text, so either branch of 223 can be taken.                       *)
LoadResults(f) ==
  IF f.kind = "absent" THEN {[raised |-> TRUE, logs |-> Unset, loaded |-> FALSE]}
  ELSE IF f.kind = "pretty"
    THEN IF dump_lines(f.content) > 10
           THEN {[raised |-> FALSE, logs |-> f.content, loaded |-> TRUE]}
           ELSE {[raised |-> FALSE, logs |-> EmptyStore(0 - 1), loaded |-> FALSE]}
    ELSE {[raised |-> TRUE, logs |-> Unset, loaded |-> FALSE],
          [raised |-> FALSE, logs |-> EmptyStore(0 - 1), loaded |-> FALSE]}

(* a day record the program wrote in an earlier run *)
StoredDay ==
  [browser_activity |-> EmptyMap,
   application_activity |->
     ("D" :> [time_spent |-> 1, keys |-> <<"a", "a">>, total_key_strokes |-> 1]),
   idle_time |-> 400]

StoredStores ==
  { EmptyStore(0 - 1), EmptyStore(7),
    [emp_id |-> 7, day_logs |-> (Today :> StoredDay), summary |-> EmptyMap],
    [emp_id |-> 7, day_logs |-> ("2025-12-31" :> StoredDay), summary |-> EmptyMap] }

(* what productivity_logs.json can be when the process starts *)
StartFiles ==
  {[kind |-> "absent", content |-> EmptyStore(0 - 1)]}
  \cup {[kind |-> "pretty", content |-> c] : c \in StoredStores}
  \cup {[kind |-> "clobbered", content |-> EmptyStore(0 - 1)]}

InitStart ==
  /\ history = <<>> /\ lba_out = <<>>
  /\ logs = Unset
  /\ file \in StartFiles
  /\ pcM = "load" /\ loaded = FALSE
  /\ InitFields /\ NoBuffer /\ NoCountRun

(* 184: self.load_logs() *)
LoadLogs ==
  /\ pcM = "load"
  /\ \E r \in LoadResults(file) :
       /\ logs' = r.logs
       /\ loaded' = r.loaded
       /\ pcM' = IF r.raised THEN "crashed" ELSE "idle_init"
  /\ UNCHANGED <<file, key_data, key_order, envV, trackV, listenV, saveV,
                 idle_in, idle_out, k_keys, k_cap, k_out, lba_out>>

\* a variant that leaves the idle accumulator at the constructor's 0
restored_idle_none(l, ld, total) == total

(* 187-188: the idle accumulator takes today's persisted idle_time *)
restored_idle(l, ld, total) ==
  IF ld /\ HasToday(l) THEN Day(l).idle_time ELSE total

(* 187-189; then run() starts the threads                                  *)
InitIdleTime ==
  /\ pcM = "idle_init"
  /\ total_idle_time' = restored_idle(logs, loaded, total_idle_time)
  /\ loaded' = IF loaded /\ HasToday(logs) THEN FALSE ELSE loaded
  /\ pcM' = "run"
  /\ UNCHANGED <<logs, file, key_data, key_order, envV, listenV, saveV,
                 app_time, browser_time, browser_history, current_logged_time,
                 pcT, it, it_size, ctx, n_len, temp_keys, ticksT,
                 idle_in, idle_out, k_keys, k_cap, k_out, lba_out>>

Running == pcM = "run"

NextStart ==
  \/ LoadLogs
  \/ InitIdleTime
  \/ Running /\ TrackStep
  \/ Running /\ ListenStep

SpecStart == InitStart /\ [][NextStart]_vars

(* The two loops as run() starts them (357-373): each is a thread of its   *)
(* own that the scheduler keeps running, and time.sleep returns, so a step *)
(* of a loop that stays possible is eventually taken.                      *)
SpecLive == InitPending /\ [][Next]_vars /\ WF_vars(TrackStep) /\ WF_vars(SaveStep)

(* ======================================================================= *)
(*                               Properties                                *)
(* ======================================================================= *)

(* C3 (as stated): a fresh idle tracker with threshold 300 fed the raw     *)
(* readings 0, 0, 400, 450, 0 has the accumulator values 0, 0, 100, 150,   *)
(* 150 after the respective calls.                                         *)
C3_Readings == <<0, 0, 400, 450, 0>>

C3_AsStated == idle_in = C3_Readings => idle_out = <<0, 0, 100, 150, 150>>

(* C3 (amended): fed the readings 0, 0, 400, 450, 0, the accumulator takes *)
(* the values 0, 0, 400, 450, 450: the first reading at or above the       *)
(* threshold adds the whole reading (the delta from 0), later ones add the *)
(* delta from the previous reading, a reading below the threshold adds     *)
(* nothing.                                                                *)
C3_Amended ==
  \A n \in 1..Len(C3_Readings) :
    idle_in = SubSeq(C3_Readings, 1, n) => idle_out = SubSeq(<<0, 0, 400, 450, 450>>, 1, n)

C3_Witness == idle_in = C3_Readings /\ total_idle_time = 450

(* C5: count_valid_keystrokes(keys, max_idle) counts the key at index i >= 1 *)
(* exactly when the run of identical symbols ending at i, index 0 included  *)
(* when the run starts there, is no longer than max_idle; so four identical *)
(* symbols with max_idle = 2 give 1.                                        *)
RunStart(keys, i) ==
  LET differ == {j \in 1..(i - 1) : keys[j] # keys[i]}
  IN  IF differ = {} THEN 1 ELSE (CHOOSE j \in differ : \A m \in differ : m <= j) + 1

RunLength(keys, i) == i - RunStart(keys, i) + 1

RunCount(keys, max_idle) ==
  Cardinality({i \in 2..Len(keys) : RunLength(keys, i) <= max_idle})

C5_AsStated == k_out # NotRun => k_out = RunCount(k_keys, k_cap)

(* The initial buffers of Spec are states of the program: each is what the *)
(* listener leaves before the first tick (checked under SpecCapture by      *)
(* finding every one of them).                                              *)
BufferIs(b) ==
  /\ key_order = [i \in DOMAIN b |-> b[i][1]]
  /\ \A i \in DOMAIN b : key_data[b[i][1]] = b[i][2]
  /\ pcL = "idle" /\ pcT = "browser" /\ ticksT = 0

(* C1: verify_change_in_user_on_this_system_uuid: a non-200 answer leaves  *)
(* the LogStore {emp_id: -1, day_logs: {}, summary: {}}; a 200 answer with *)
(* a different emp_id leaves {emp_id: <returned>, day_logs: {}, summary:   *)
(* {}}; a 200 answer with the stored emp_id leaves it unchanged; and no    *)
(* step changes emp_id without emptying day_logs and summary.              *)
VerifyAnswered == pcS = "verify" /\ pcS' = "dump"

C1_Verify ==
  [][ /\ VerifyAnswered =>
           /\ resp'.status # 200 =>
                logs' = [emp_id |-> 0 - 1, day_logs |-> EmptyMap, summary |-> EmptyMap]
           /\ (resp'.status = 200 /\ resp'.emp_id # logs.emp_id) =>
                logs' = [emp_id |-> resp'.emp_id, day_logs |-> EmptyMap,
                         summary |-> EmptyMap]
           /\ (resp'.status = 200 /\ resp'.emp_id = logs.emp_id) => logs' = logs
      /\ logs'.emp_id # logs.emp_id =>
           logs'.day_logs = EmptyMap /\ logs'.summary = EmptyMap ]_vars

C1_Witness ==
  /\ pcS = "dump" /\ resp.status = 200
  /\ before.populated /\ before.emp_id # resp.emp_id
  /\ logs.emp_id = resp.emp_id /\ logs.day_logs = EmptyMap

(* C2: every payload handed to send_metrics has exactly the fields uuid,   *)
(* date, app_details, idle_time; each app_details entry has exactly the    *)
(* field total_key_strokes, a number; its labels are applications of       *)
(* today's record, so neither a key sequence nor a domain known only from  *)
(* the browser is in it.                                                   *)
C2_Payload ==
  \A i \in DOMAIN sent :
    LET p == sent[i] IN
      /\ DOMAIN p = {"uuid", "date", "app_details", "idle_time"}
      /\ p.uuid = Uuid /\ p.date = Today /\ p.idle_time \in Nat
      /\ HasToday(logs)
      /\ DOMAIN p.app_details \subseteq DOMAIN Day(logs).application_activity
      /\ \A a \in DOMAIN p.app_details :
           /\ DOMAIN p.app_details[a] = {"total_key_strokes"}
           /\ p.app_details[a].total_key_strokes \in Nat

C2_Witness ==
  /\ sent # <<>>
  /\ \E a \in DOMAIN Day(logs).application_activity :
       Day(logs).application_activity[a].keys # <<>>
  /\ \E d \in DOMAIN Day(logs).browser_activity :
       d \notin DOMAIN Day(logs).application_activity

(* C4: while the process runs and the LogStore is not reset, neither the   *)
(* idle accumulator nor day_logs[today].idle_time ever decreases, whatever *)
(* the readings.                                                           *)
ResetStep == pcS = "verify" /\ logs' # logs

C4_AsStated ==
  [][ ~ResetStep =>
        /\ total_idle_time' >= total_idle_time
        /\ (HasToday(logs) /\ HasToday(logs')) =>
              Day(logs').idle_time >= Day(logs).idle_time ]_vars

(* C6: in every state that save_logs can read while it writes the file or  *)
(* builds the payload, each entry of every day record has                   *)
(* total_key_strokes = count_valid_keystrokes(keys) with the cap 20.        *)
ConsistentEntries(m) ==
  \A c \in DOMAIN m :
    m[c].total_key_strokes = count_valid_keystrokes(m[c].keys, DefaultMaxIdle)

Consistent(l) ==
  \A d \in DOMAIN l.day_logs :
    /\ ConsistentEntries(l.day_logs[d].browser_activity)
    /\ ConsistentEntries(l.day_logs[d].application_activity)

SaveReading == {"dump", "payload_start", "payload_build"}

C6_AsStated == pcS \in SaveReading => Consistent(logs)

(* C7: under every interleaving of on_press with aggregate_logs, each key   *)
(* captured for a context of today's record is in that context's keys or    *)
(* still pending, exactly once: none is lost, none is there twice.          *)
StoredCount(c) ==
  (IF HasToday(logs) /\ c \in DOMAIN Day(logs).browser_activity
     THEN Len(Day(logs).browser_activity[c].keys) ELSE 0)
  + (IF HasToday(logs) /\ c \in DOMAIN Day(logs).application_activity
       THEN Len(Day(logs).application_activity[c].keys) ELSE 0)

InRecord(c) ==
  /\ HasToday(logs)
  /\ c \in (DOMAIN Day(logs).browser_activity) \cup (DOMAIN Day(logs).application_activity)

DroppedCount(c) == IF c \in DOMAIN dropped THEN dropped[c] ELSE 0

\* no key is in flight: on_press is not between its two steps, and the
\* drain is not between taking a list out of the buffer and extending keys
NothingInFlight == pcL = "idle" /\ pcT # "drain_extend"

C7_AsStated ==
  NothingInFlight =>
    \A c \in DOMAIN captured :
      InRecord(c) =>
        StoredCount(c) + Len(key_data[c]) + DroppedCount(c) = Len(captured[c])

(* C8: save_logs, the reset of its identity check included, never takes a   *)
(* step between two steps of an aggregate_logs call.                        *)
InAggregate ==
  pcT \in {"agg_browser", "agg_apps", "drain_next", "drain_store", "drain_extend",
           "drain_count_b", "drain_count_a", "agg_idle"}

SaveTouchesStore ==
  /\ pcS \in {"verify", "dump", "payload_start", "payload_build"}
  /\ pcS' # pcS
  /\ resp'.kind # "raise"

C8_AsStated == [][ SaveTouchesStore => ~InAggregate ]_vars

(* C9: every persistence tick writes the LogStore to the file, whatever the *)
(* remote side does: also a tick whose identity check fails with a network  *)
(* error reaches its end with the file written.                             *)
C9_AsStated == pcS = "sleep" => wrote

(* C10: in a tick whose identity check succeeded, a failure of send_metrics *)
(* (an exception or a non-2xx answer) leaves the file as the write of that  *)
(* tick produced it and the LogStore unchanged, and the loop goes on to its *)
(* sleep.                                                                   *)
SendFailed ==
  /\ pcS = "payload_build" /\ pcS' # pcS
  /\ sent' # sent
  /\ outcome' \in {"raise", "non2xx"}

C10_SendFailure ==
  [][ SendFailed =>
        /\ logs' = logs
        /\ file' = file /\ file.kind = "pretty" /\ wrote
        /\ pcS' = "sleep" ]_vars

C10_Witness ==
  /\ pcS = "sleep" /\ outcome = "raise" /\ sent # <<>> /\ wrote
  /\ resp.status = 200

(* C11: both periodic loops keep ticking: under fair scheduling, whenever   *)
(* track_activity is inside a tick it eventually comes back to the top of   *)
(* its loop for the next one, also when an operation of the tick raised,    *)
(* and likewise save_logs.                                                  *)
TrackLoopTop == pcT = "browser"
SaveLoopTop  == pcS = "verify"

C11_AsStated ==
  /\ [](~TrackLoopTop => <>TrackLoopTop)
  /\ [](~SaveLoopTop => <>SaveLoopTop)

(* C12: once a domain has an entry in today's browser_activity, no later    *)
(* aggregation tick changes that entry's visits or time_spent, whatever     *)
(* counts the browser sampler reports: as long as today's record is there,  *)
(* every step keeps the entry with both numbers.                            *)
C12_BrowserKept ==
  [][ (HasToday(logs) /\ HasToday(logs')) =>
        \A d \in DOMAIN Day(logs).browser_activity :
          /\ d \in DOMAIN Day(logs').browser_activity
          /\ Day(logs').browser_activity[d].visits = Day(logs).browser_activity[d].visits
          /\ Day(logs').browser_activity[d].time_spent =
               Day(logs).browser_activity[d].time_spent ]_vars

\* the second tick has run its browser loop: the sampler reports 2, the entry has 1
C12_Witness ==
  /\ ticksT = 1 /\ pcT = "agg_apps" /\ HasToday(logs)
  /\ "D" \in DOMAIN browser_time /\ browser_time["D"].visits = 2
  /\ "D" \in DOMAIN Day(logs).browser_activity
  /\ Day(logs).browser_activity["D"].visits = 1
  /\ Day(logs).browser_activity["D"].time_spent = 1

(* C13: at process start, when the log file is absent or has 10 or fewer   *)
(* lines, load_logs ends with the LogStore {emp_id: -1, day_logs: {},       *)
(* summary: {}} and the process goes on to run.                             *)
FileAbsent == file.kind = "absent"
FileSmall  == file.kind = "pretty" /\ dump_lines(file.content) <= 10

C13_AsStated ==
  (FileAbsent \/ FileSmall) =>
    /\ pcM # "crashed"
    /\ pcM = "idle_init" => logs = EmptyStore(0 - 1)

(* C14: after any sequence of sample+aggregate ticks without reset or date  *)
(* change, application_activity[app].time_spent of today's record is the    *)
(* number of those ticks at which the application was the foreground        *)
(* window.  log_active_app adds one to app_time[app] at each such tick, so  *)
(* app_time[app] is that number.                                            *)
TicksForeground(a) == IF a \in DOMAIN app_time THEN app_time[a] ELSE 0

BetweenTicks == pcT = "browser" /\ ticksT > 0

C14_AsStated ==
  (BetweenTicks /\ HasToday(logs)) =>
    \A a \in DOMAIN Day(logs).application_activity :
      Day(logs).application_activity[a].time_spent = TicksForeground(a)

(* C15: log_browser_activity is an idempotent full recompute: called any   *)
(* number of times in a row on the same history snapshot it leaves the same *)
(* per-date, per-domain counts as one call, time_spent and visits of a      *)
(* domain on a date each being the number of history entries of that domain *)
(* on that date.                                                            *)
EntriesOf(h, date, domain) ==
  {j \in DOMAIN h : h[j].date = date /\ url_domain(h[j].url) = domain}

CountsOn(h, date) ==
  [dom \in {url_domain(h[j].url) : j \in {k \in DOMAIN h : h[k].date = date}} |->
     [time_spent |-> Cardinality(EntriesOf(h, date, dom)),
      visits |-> Cardinality(EntriesOf(h, date, dom))]]

C15_AsStated ==
  \A i \in DOMAIN lba_out :
    /\ lba_out[i] = lba_out[1]
    /\ lba_out[i].time = CountsOn(history, Today)
    /\ lba_out[i].hist = [d \in {history[j].date : j \in DOMAIN history} |->
                            CountsOn(history, d)]

(* C16: check_idle, for every raw reading r and every prior state (total,   *)
(* lastLogged): if r >= threshold, total grows by exactly r - lastLogged    *)
(* and lastLogged becomes r; if r < threshold, total is unchanged and       *)
(* lastLogged becomes 0; if the idle query raises, both are unchanged and   *)
(* the call returns (no error leaves check_idle).                           *)
IdleCalled == Len(idle_in') = Len(idle_in) + 1
LastReading == idle_in'[Len(idle_in')]

C16_CheckIdle ==
  [][ IdleCalled =>
        /\ Len(idle_out') = Len(idle_in')
        /\ (LastReading # Raises /\ LastReading >= idle_threshold) =>
              /\ total_idle_time' = total_idle_time + (LastReading - current_logged_time)
              /\ current_logged_time' = LastReading
        /\ (LastReading # Raises /\ LastReading < idle_threshold) =>
              /\ total_idle_time' = total_idle_time
              /\ current_logged_time' = 0
        /\ LastReading = Raises =>
              /\ total_idle_time' = total_idle_time
              /\ current_logged_time' = current_logged_time ]_vars

\* the three cases have happened, the raise with a non-zero prior state
C16_Witness ==
  /\ idle_in = <<400, Raises, 450, 0>>
  /\ idle_out = <<400, 400, 450, 450>>
  /\ current_logged_time = 0

(* C17: in the drain step of aggregate_logs, for every context with        *)
(* pending keys: if the context is a key of today's browser_activity the    *)
(* keys are appended there and only there (also when the same label is an   *)
(* application); otherwise, if it is a key of application_activity, they    *)
(* are appended there; otherwise nowhere.  In all three cases those keys    *)
(* (the keys that were pending when the drain came to the context) are      *)
(* removed from the pending buffer, and the keys already stored for a       *)
(* context stay a prefix of its keys.                                       *)
IsPrefix(p, q) == Len(p) <= Len(q) /\ SubSeq(q, 1, Len(p)) = p

TakeStep   == pcT = "drain_store" /\ pcT' = "drain_extend"
ExtendStep == pcT = "drain_extend" /\ pcT' \in {"drain_count_b", "drain_count_a", "drain_next"}

C17_Bucket ==
  ExtendStep =>
    LET ba  == Day(logs).browser_activity
        aa  == Day(logs).application_activity
        ba2 == Day(logs').browser_activity
        aa2 == Day(logs').application_activity
    IN  IF ctx \in DOMAIN ba
          THEN /\ ba2[ctx].keys = ba[ctx].keys \o temp_keys
               /\ aa2 = aa
          ELSE IF ctx \in DOMAIN aa
            THEN /\ aa2[ctx].keys = aa[ctx].keys \o temp_keys
                 /\ ba2 = ba
            ELSE logs' = logs

\* the keys pending when the drain came to the context (the first n_len of
\* the list) are taken for appending and are no longer pending; what
\* on_press added since stays pending
C17_Removed ==
  TakeStep =>
    /\ IsPrefix(SubSeq(key_data[ctx], 1, n_len), temp_keys')
    /\ SubSeq(key_data[ctx], 1, n_len) \o key_data'[ctx] = key_data[ctx]

C17_Prefix ==
  (HasToday(logs) /\ HasToday(logs')) =>
    /\ \A c \in DOMAIN Day(logs).browser_activity :
         /\ c \in DOMAIN Day(logs').browser_activity
         /\ IsPrefix(Day(logs).browser_activity[c].keys, Day(logs').browser_activity[c].keys)
    /\ \A c \in DOMAIN Day(logs).application_activity :
         /\ c \in DOMAIN Day(logs').application_activity
         /\ IsPrefix(Day(logs).application_activity[c].keys,
                     Day(logs').application_activity[c].keys)

C17_Drain == [][ C17_Bucket /\ C17_Removed /\ C17_Prefix ]_vars

\* a context that is a domain and an application got its keys in
\* browser_activity only, and the keys of another context were dropped
C17_Witness ==
  /\ pcT = "drain_count_b" /\ ctx = "D"
  /\ "D" \in DOMAIN Day(logs).application_activity
  /\ Day(logs).application_activity["D"].keys = <<>>
  /\ Day(logs).browser_activity["D"].keys # <<>>
  /\ "Unknown" \in DOMAIN dropped /\ dropped["Unknown"] > 0
  /\ key_data["Unknown"] = <<>>

(* C18: after a LogStore reset triggered by the identity check, the record  *)
(* that the next aggregation tick builds for today contains only            *)
(* observations made after the reset: its idle_time counts only idle        *)
(* seconds accrued after the reset, its application_activity lists only     *)
(* applications sampled after the reset with time_spent counted from the    *)
(* reset, and its keys hold no key captured before the reset.  Stated for a *)
(* reset that comes while track_activity is between two ticks.              *)
SampledSince(a) ==
  (IF a \in DOMAIN app_time THEN app_time[a] ELSE 0)
  - (IF a \in DOMAIN at_reset.apps THEN at_reset.apps[a] ELSE 0)

CapturedSince(c) ==
  (IF c \in DOMAIN captured THEN Len(captured[c]) ELSE 0)
  - (IF c \in DOMAIN at_reset.captured THEN Len(at_reset.captured[c]) ELSE 0)

TickSinceReset ==
  /\ at_reset.on
  /\ pcT = "browser" /\ ticksT = at_reset.tick + 1
  /\ HasToday(logs)

C18_AsStated ==
  TickSinceReset =>
    /\ Day(logs).idle_time = total_idle_time - at_reset.idle
    /\ \A a \in DOMAIN Day(logs).application_activity :
         /\ SampledSince(a) > 0
         /\ Day(logs).application_activity[a].time_spent = SampledSince(a)
         /\ Len(Day(logs).application_activity[a].keys) <= CapturedSince(a)
    /\ \A d \in DOMAIN Day(logs).browser_activity :
         Len(Day(logs).browser_activity[d].keys) <= CapturedSince(d)

(* C19: in a persistence tick whose identity check got a non-200 answer no  *)
(* metrics payload is transmitted, under every interleaving with the        *)
(* sample+aggregate loop; and no payload is transmitted in a tick in which  *)
(* today's record has no application activity.                              *)
CheckRefused == resp.kind = "answer" /\ resp.status # 200

NoApplicationActivity ==
  ~HasToday(logs) \/ Day(logs).application_activity = EmptyMap

C19_AsStated ==
  /\ CheckRefused => sent = <<>>
  /\ NoApplicationActivity => sent = <<>>

(* C20: after a process restart on the same date with a log file of more   *)
(* than 10 lines that holds a record for today, the idle accumulator starts *)
(* at the persisted idle_time, so the idle_time written by the first        *)
(* aggregation tick after the restart is not smaller than the persisted     *)
(* value; keys, total_key_strokes and time_spent of the contexts of the     *)
(* loaded record are kept by that tick (keys typed since are appended after *)
(* the loaded ones and counted).                                            *)
Restarted ==
  /\ pcM = "run"
  /\ file.kind = "pretty" /\ dump_lines(file.content) > 10
  /\ HasToday(file.content)

Persisted == Day(file.content)

KeptEntry(old, new) ==
  /\ new.time_spent = old.time_spent
  /\ IsPrefix(old.keys, new.keys)
  /\ new.total_key_strokes >= old.total_key_strokes
  /\ new.keys = old.keys => new.total_key_strokes = old.total_key_strokes

C20_Restart ==
  Restarted =>
    /\ (pcT = "browser" /\ ticksT = 0) => total_idle_time = Persisted.idle_time
    /\ (pcT = "browser" /\ ticksT = 1) =>
         /\ Day(logs).idle_time >= Persisted.idle_time
         /\ \A a \in DOMAIN Persisted.application_activity :
              /\ a \in DOMAIN Day(logs).application_activity
              /\ KeptEntry(Persisted.application_activity[a],
                           Day(logs).application_activity[a])
         /\ \A d \in DOMAIN Persisted.browser_activity :
              /\ d \in DOMAIN Day(logs).browser_activity
              /\ KeptEntry(Persisted.browser_activity[d], Day(logs).browser_activity[d])

\* the first tick after the restart has run, with an idle reading and a key
\* typed since the restart
C20_Witness ==
  /\ Restarted /\ pcT = "browser" /\ ticksT = 1
  /\ Persisted.idle_time = 400 /\ Day(logs).idle_time = 750
  /\ Day(logs).application_activity["D"] =
       [time_spent |-> 1, keys |-> <<"a", "a", "a">>, total_key_strokes |-> 2]

====
